---- MODULE Spec2Model ----
(***************************************************************************)
(* Layer store, interaction gate, action channel and agent registry of the *)
(* collaborative canvas (static/js/canvas.js, websocket.js,                *)
(* conversation.js).  Every handler of the browser session is one action.  *)
(***************************************************************************)
EXTENDS Integers, Sequences, FiniteSets, TLC

\* ------------------------------------------------------------------ bounds
MaxObjects == 2       \* objects (paths, diagrams) created in one run
MaxClock == 1         \* Date.now() takes the values 0..MaxClock
MaxGestures == 1      \* snapshots pushed by mouse:up before the model stops drawing
MaxConnSockets == 6   \* WebSocket objects created in one run of ConnSpec
MaxWireSockets == 3   \* WebSocket objects created in one run of WireSpec
MaxSends == 3         \* sendMessage calls logged in one run of WireSpec
MaxLocalClears == 1   \* Clear Canvas clicks in one run of EchoSpec
MaxRollbackGestures == 3   \* snapshots on the undo stack in one run of RollbackSpec

\* ------------------------------------------------------- program constants
maxReconnectAttempts == 5
reconnectDelay == 1000
maxUndoSteps == 50

Agents == {"A", "B"}
OwnerIds == {"human"} \cup Agents
NoAgent == "null"          \* JavaScript null / undefined
NoOid == 0
NoStatus == ""             \* the text of #connection-status before the first write

VARIABLES
    currentAgent,     \* CanvasManager.currentAgent
    isDrawing,        \* CanvasManager.isDrawing
    layers,           \* CanvasManager.layers : owner id -> sequence of objects
    undoStack,        \* CanvasManager.undoStack : sequence of surface snapshots
    canvasObjs,       \* objects held by the fabric canvas
    dom,              \* mermaid containers in .canvas-container, document order
    agents,           \* AgentManager.agents : agent id -> is_active
    socks,            \* every WebSocket created so far; this.ws is the last one
    isConnected,      \* WebSocketManager.isConnected
    reconnectAttempts,\* WebSocketManager.reconnectAttempts
    reconnectTimers,  \* pending setTimeout(connect) delays
    discoverTimers,   \* pending setTimeout(discoverAgents) of onopen
    now,              \* the clock read by Date.now()
    nextOid,          \* identity of the next JavaScript object created
    emitted,          \* the sendMessage calls of the last handler, in order
    notes,            \* the conversation-log entries of the last handler
    lastOp,           \* the last handler that ran, with its arguments
    added,            \* owner -> objects added under it and not yet removed
    schedSinceOpen,   \* connect() calls scheduled since the last successful open
    failedSinceOpen,  \* connections that failed since the last successful open
    ceilingHit,       \* handleConnectionError has reported the attempt ceiling
    calls,            \* sendMessage calls made so far (counted in WireSpec only)
    wire,             \* the ws.send calls made so far (logged in WireSpec only)
    gestureAgent,     \* currentAgent as the gate read it at the mouse:down of the gesture in progress
    layerCountText,   \* agent id -> the number shown in #layer-count-<id>
    statusText,       \* the text shown in #connection-status
    download,         \* the file of the last exportSession call, parsed again
    relay             \* clear actions in flight between two viewers (EchoSpec only)

vars == <<currentAgent, isDrawing, layers, undoStack, canvasObjs, dom, agents,
          socks, isConnected, reconnectAttempts, reconnectTimers, discoverTimers,
          now, nextOid, emitted, notes, lastOp, added, schedSinceOpen,
          failedSinceOpen, ceilingHit, calls, wire, gestureAgent, layerCountText,
          statusText, download, relay>>

wireVars == <<calls, wire, relay>>

viewVars == <<gestureAgent, layerCountText, statusText, download>>

canvasVars == <<currentAgent, isDrawing, layers, undoStack, canvasObjs, dom, now,
                nextOid, added>>
connVars == <<socks, isConnected, reconnectAttempts, reconnectTimers,
              discoverTimers, schedSinceOpen, failedSinceOpen, ceilingHit>>

\* ------------------------------------------------------------------ helpers
Range(s) == {s[i] : i \in DOMAIN s}

RemoveAt(s, i) == [j \in 1..(Len(s) - 1) |-> IF j < i THEN s[j] ELSE s[j + 1]]

\* Map.set(key, value)
MapSet(m, k, v) == [x \in (DOMAIN m) \cup {k} |-> IF x = k THEN v ELSE m[x]]

\* Map.delete(key)
MapDelete(m, k) == [x \in (DOMAIN m) \ {k} |-> m[x]]

EmptyMap == [x \in {} |-> 0]

\* no file has been exported
NoDownload == [fields |-> {}, agents |-> {}, layers |-> EmptyMap, layerStats |-> EmptyMap]

PathObj(oid, agent) ==
    [oid |-> oid, kind |-> "path", agent |-> agent, id |-> 0]

\* the entry addMermaidDiagram stores: it has no data field, hence no data.agent
MermaidObj(oid, diagramId) ==
    [oid |-> oid, kind |-> "mermaid", agent |-> NoAgent, id |-> diagramId]

\* the container addMermaidDiagram appends to .canvas-container; owner is the
\* agentId argument of the call, which the element itself does not record
MermaidElement(oid, diagramId, owner) ==
    [oid |-> oid, id |-> diagramId, owner |-> owner]

\* the record of a handler run: op and arg name the handler and its argument;
\* actor, targetAgent, active and rejected describe a mouse:down (ActiveOwner
\* before the event, e.target.data.agent, currentAgent read by the gate, its
\* verdict; a path:created that follows its mouse:down at once keeps the actor);
\* count is the length of the layer a clearAgentLayer call found
\* (-1 when the id had no layer), or the length of the undo stack a mouse:up
\* found, or reconnectAttempts as a close or a failure of a socket found it
Op(op, arg) ==
    [op |-> op, arg |-> arg, actor |-> NoAgent, targetAgent |-> NoAgent,
     active |-> NoAgent, rejected |-> FALSE, count |-> -1]

ClearOp(op, agentId) ==
    [Op(op, agentId) EXCEPT
        !.count = IF agentId \in DOMAIN layers THEN Len(layers[agentId]) ELSE -1]

\* ------------------------------------------------------------ action channel
ws == Len(socks)

\* the guard of sendMessage
CanSend == isConnected /\ ws > 0 /\ socks[ws] = "open"

Msg(type, actionType, agentId, arg) ==
    [type |-> type, action_type |-> actionType, agent_id |-> agentId, arg |-> arg]

\* WebSocketManager.sendMessage appended to the calls made so far by the handler
sendMessage(out, m) == Append(out, [msg |-> m, ok |-> CanSend])

\* CanvasManager.sendCanvasAction
sendCanvasAction(out, actionType, agentId, arg) ==
    sendMessage(out, Msg("canvas_action", actionType, agentId, arg))

\* ---------------------------------------------------------------- layer store
\* getLayerObjects: this.layers.get(agentId) || []
LayerOf(ls, owner) == IF owner \in DOMAIN ls THEN ls[owner] ELSE <<>>

\* CanvasManager.getLayerInfo()[owner].object_count
ObjectCount(owner) == Len(layers[owner])

\* path:created: the layer the new path is pushed to
PathCreatedLayers(ls, cur, path) ==
    LET l1 == IF cur \in DOMAIN ls THEN ls ELSE MapSet(ls, cur, <<>>)
    IN  MapSet(l1, cur, Append(l1[cur], path))

\* path:created: path.data.agent
PathCreatedAgent(cur) == IF cur = NoAgent THEN "human" ELSE cur

\* a push that files every object under "human"
PushToLayerHuman(ls, agentId, obj) ==
    MapSet(ls, "human", Append(LayerOf(ls, "human"), obj))

\* addAgentDrawing / addMermaidDiagram: push to the layer of agentId
PushToLayer(ls, agentId, obj) ==
    LET l1 == IF agentId \in DOMAIN ls THEN ls ELSE MapSet(ls, agentId, <<>>)
    IN  MapSet(l1, agentId, Append(l1[agentId], obj))

\* clearAgentLayer dropping the layer entry instead of resetting it
ClearAgentLayerLayersDeletes(ls, agentId) == MapDelete(ls, agentId)

\* clearAgentLayer: the layer map afterwards
ClearAgentLayerLayers(ls, agentId) ==
    IF agentId \in DOMAIN ls THEN MapSet(ls, agentId, <<>>) ELSE ls

\* clearAgentLayer: the fabric canvas afterwards (canvas.remove of each entry)
ClearAgentLayerCanvas(cv, ls, agentId) ==
    IF agentId \in DOMAIN ls THEN cv \ Range(ls[agentId]) ELSE cv

\* clearAgentLayer announcing the clear without looking for the layer
ClearAgentLayerSendsAlways(out, ls, agentId) ==
    sendCanvasAction(out, "layer_cleared", "system", agentId)

\* clearAgentLayer announcing the clear twice
ClearAgentLayerSendsTwice(out, ls, agentId) ==
    IF agentId \in DOMAIN ls
    THEN sendCanvasAction(sendCanvasAction(out, "layer_cleared", "system", agentId),
                          "layer_cleared", "system", agentId)
    ELSE out

\* clearAgentLayer: the messages handed to the channel
ClearAgentLayerSends(out, ls, agentId) ==
    IF agentId \in DOMAIN ls
    THEN sendCanvasAction(out, "layer_cleared", "system", agentId)
    ELSE out

\* clearCanvas: the layer map afterwards
ClearCanvasLayers(ls) == MapSet(EmptyMap, "human", <<>>)

\* removeMermaidDiagram: document.getElementById(diagramId), then element.remove()
RemoveMermaidDom(d, diagramId) ==
    IF \E i \in DOMAIN d : d[i].id = diagramId
    THEN RemoveAt(d, CHOOSE i \in DOMAIN d :
                        d[i].id = diagramId /\ \A j \in 1..(i - 1) : d[j].id # diagramId)
    ELSE d

\* removeMermaidDiagram: the layer map afterwards (the handler never touches it)
RemoveMermaidLayers(ls, diagramId) == ls

\* the first mouse:down listener
\* a first listener that leaves currentAgent as it finds it
MouseDownAgentKeeps(cur) == cur

MouseDownAgent(cur) == "human"

\* the second mouse:down listener: TRUE when the event is swallowed
MouseDownRejects(targetAgent, cur) ==
    targetAgent # NoAgent /\ targetAgent # cur /\ cur # "human"

\* a mouse:down that deletes the object under the pointer
MouseDownLayersDeletes(ls, target) ==
    [k \in DOMAIN ls |-> SelectSeq(ls[k], LAMBDA o : o.oid # target)]

\* the layer map after both mouse:down listeners
MouseDownLayers(ls, target) == ls

\* ------------------------------------------------- the store a send call sees
\* clearAgentLayer announcing the clear before it resets the layer
ClearAgentLayerSendStoreBefore(ls, agentId) == ls

\* clearAgentLayer: this.layers when sendCanvasAction is called (canvas.js:149),
\* after layers.set(agentId, []) (canvas.js:146)
ClearAgentLayerSendStore(ls, agentId) == ClearAgentLayerLayers(ls, agentId)

\* path:created: this.layers when sendCanvasAction is called (canvas.js:59),
\* after the push (canvas.js:55)
PathCreatedSendStore(ls, cur, path) == PathCreatedLayers(ls, cur, path)

\* clearCanvas: this.layers when sendCanvasAction is called (canvas.js:207),
\* after layers.clear() and layers.set('human', []) (canvas.js:202-203)
ClearCanvasSendStore(ls) == ClearCanvasLayers(ls)

\* ----------------------------------------------------------------- ghost state
AddedPut(a, owner, oid) == [a EXCEPT ![owner] = @ \cup {oid}]
AddedClear(a, owner) == [a EXCEPT ![owner] = {}]

Init ==
    /\ currentAgent = NoAgent
    /\ isDrawing = FALSE
    /\ layers = MapSet(EmptyMap, "human", <<>>)
    /\ undoStack = <<>>
    /\ canvasObjs = {}
    /\ dom = <<>>
    /\ agents = EmptyMap
    /\ socks = <<"connecting">>
    /\ isConnected = FALSE
    /\ reconnectAttempts = 0
    /\ reconnectTimers = <<>>
    /\ discoverTimers = 0
    /\ now = 0
    /\ nextOid = 1
    /\ emitted = <<>>
    /\ notes = <<>>
    /\ lastOp = Op("init", NoAgent)
    /\ added = [o \in OwnerIds \cup {NoAgent} |-> {}]
    /\ schedSinceOpen = 0
    /\ failedSinceOpen = 0
    /\ ceilingHit = FALSE
    /\ calls = 0
    /\ wire = <<>>
    /\ relay = [toLocal |-> 0, toPeer |-> 0, local |-> 0]
    /\ gestureAgent = NoAgent
    /\ layerCountText = EmptyMap
    /\ statusText = NoStatus
    /\ download = NoDownload

\* a push that drops the newest snapshot beyond maxUndoSteps
saveToUndoStackDropsNewest(stack, snapshot) ==
    LET pushed == Append(stack, snapshot)
    IN  IF Len(pushed) > maxUndoSteps THEN SubSeq(pushed, 1, maxUndoSteps) ELSE pushed

\* saveToUndoStack: push, then drop the oldest beyond maxUndoSteps
saveToUndoStack(stack, snapshot) ==
    LET pushed == Append(stack, snapshot)
    IN  IF Len(pushed) > maxUndoSteps THEN Tail(pushed) ELSE pushed

\* ------------------------------------------------------------ pointer gestures
\* canvas.on('mouse:down'): both listeners, in registration order
MouseDown(target) ==
    /\ ~isDrawing
    /\ LET tAgent == IF target = NoOid THEN NoAgent
                     ELSE (CHOOSE o \in canvasObjs : o.oid = target).agent
           cur1 == MouseDownAgent(currentAgent)
       IN  /\ isDrawing' = TRUE
           /\ currentAgent' = cur1
           /\ layers' = MouseDownLayers(layers, target)
           /\ gestureAgent' = cur1
           /\ lastOp' = [Op("mouse:down", NoAgent) EXCEPT
                            !.actor = currentAgent, !.targetAgent = tAgent,
                            !.active = cur1,
                            !.rejected = MouseDownRejects(tAgent, cur1)]
    /\ emitted' = <<>>
    /\ notes' = <<>>
    /\ UNCHANGED <<undoStack, canvasObjs, dom, now, nextOid, added, agents>>
    /\ UNCHANGED <<layerCountText, statusText, download>>
    /\ UNCHANGED connVars

\* the brush's mouse up with a stroke: canvas.add(path), path:created, then mouse:up
PathCreated ==
    /\ isDrawing
    /\ nextOid <= MaxObjects
    /\ LET path == PathObj(nextOid, PathCreatedAgent(currentAgent))
           cv == canvasObjs \cup {path}
       IN  /\ canvasObjs' = cv
           /\ layers' = PathCreatedLayers(layers, currentAgent, path)
           /\ emitted' = IF currentAgent # "human"
                         THEN sendCanvasAction(<<>>, "draw", currentAgent, NoAgent)
                         ELSE <<>>
           /\ undoStack' = saveToUndoStack(undoStack, cv)
           /\ added' = AddedPut(added, currentAgent, nextOid)
    /\ nextOid' = nextOid + 1
    /\ isDrawing' = FALSE
    /\ notes' = <<>>
    /\ gestureAgent' = NoAgent
    /\ UNCHANGED <<layerCountText, statusText, download>>
    /\ lastOp' = [Op("path:created", NoAgent) EXCEPT
                     !.count = Len(undoStack),
                     !.actor = IF lastOp.op = "mouse:down" THEN lastOp.actor ELSE NoAgent]
    /\ UNCHANGED <<currentAgent, dom, now, agents>>
    /\ UNCHANGED connVars

\* a click without a stroke: the brush adds nothing, mouse:up runs alone
MouseUp ==
    /\ isDrawing
    /\ isDrawing' = FALSE
    /\ undoStack' = saveToUndoStack(undoStack, canvasObjs)
    /\ emitted' = <<>>
    /\ notes' = <<>>
    /\ gestureAgent' = NoAgent
    /\ UNCHANGED <<layerCountText, statusText, download>>
    /\ lastOp' = [Op("mouse:up", NoAgent) EXCEPT !.count = Len(undoStack)]
    /\ UNCHANGED <<currentAgent, layers, canvasObjs, dom, now, nextOid, added, agents>>
    /\ UNCHANGED connVars

\* AgentManager.setAgentDrawingMode -> CanvasManager.setAgentDrawingMode
SetAgentDrawingMode(agentId) ==
    /\ agentId \in DOMAIN agents
    /\ currentAgent' = agentId
    /\ layers' = IF agentId \in DOMAIN layers THEN layers
                 ELSE MapSet(layers, agentId, <<>>)
    /\ emitted' = <<>>
    /\ notes' = <<>>
    /\ UNCHANGED viewVars
    /\ lastOp' = Op("setAgentDrawingMode", agentId)
    /\ UNCHANGED <<isDrawing, undoStack, canvasObjs, dom, now, nextOid, added, agents>>
    /\ UNCHANGED connVars

\* ------------------------------------------------------------- local controls
\* #clear-canvas: CanvasManager.clearCanvas
ClearCanvasControl ==
    /\ canvasObjs' = {}
    /\ layers' = ClearCanvasLayers(layers)
    /\ undoStack' = <<>>
    /\ emitted' = sendCanvasAction(<<>>, "clear", "system", NoAgent)
    /\ notes' = <<>>
    /\ added' = [o \in DOMAIN added |-> {}]
    /\ UNCHANGED viewVars
    /\ lastOp' = Op("clearCanvas", NoAgent)
    /\ UNCHANGED <<currentAgent, isDrawing, dom, now, nextOid, agents>>
    /\ UNCHANGED connVars

\* the agent card's Clear Layer button: AgentManager.clearAgentLayer
ClearLayerControl(agentId) ==
    /\ agentId \in DOMAIN agents
    /\ canvasObjs' = ClearAgentLayerCanvas(canvasObjs, layers, agentId)
    /\ layers' = ClearAgentLayerLayers(layers, agentId)
    /\ emitted' = sendMessage(ClearAgentLayerSends(<<>>, layers, agentId),
                              Msg("clear_agent_layer", NoAgent, agentId, NoAgent))
    /\ notes' = <<>>
    /\ added' = AddedClear(added, agentId)
    /\ UNCHANGED viewVars
    /\ lastOp' = ClearOp("clearAgentLayer", agentId)
    /\ UNCHANGED <<currentAgent, isDrawing, undoStack, dom, now, nextOid, agents>>
    /\ UNCHANGED connVars

\* the agent card's Remove button: AgentManager.removeAgent with confirm()
\* answered yes (answered no, the handler returns without any effect)
RemoveAgentControl(agentId) ==
    /\ agentId \in DOMAIN agents
    /\ agents' = MapDelete(agents, agentId)
    /\ canvasObjs' = ClearAgentLayerCanvas(canvasObjs, layers, agentId)
    /\ layers' = ClearAgentLayerLayers(layers, agentId)
    /\ emitted' = ClearAgentLayerSends(
                      sendMessage(<<>>, Msg("remove_agent", NoAgent, agentId, NoAgent)),
                      layers, agentId)
    /\ added' = AddedClear(added, agentId)
    /\ notes' = <<>>
    /\ layerCountText' = MapDelete(layerCountText, agentId)
    /\ UNCHANGED <<gestureAgent, statusText, download>>
    /\ lastOp' = ClearOp("removeAgent", agentId)
    /\ UNCHANGED <<currentAgent, isDrawing, undoStack, dom, now, nextOid>>
    /\ UNCHANGED connVars

\* addMermaidDiagram: `mermaid-${Date.now()}`
DiagramId(t) == t

\* CanvasManager.addMermaidDiagram(content, position, agentId), Date.now() = t
AddMermaid(op, agentId, t, out, log) ==
    /\ nextOid <= MaxObjects
    /\ t >= now
    /\ now' = t
    /\ dom' = Append(dom, MermaidElement(nextOid, DiagramId(t), agentId))
    /\ layers' = PushToLayer(layers, agentId, MermaidObj(nextOid, DiagramId(t)))
    /\ nextOid' = nextOid + 1
    /\ added' = AddedPut(added, agentId, nextOid)
    /\ emitted' = out
    /\ notes' = log
    /\ UNCHANGED viewVars
    /\ lastOp' = Op(op, NoAgent)
    /\ UNCHANGED <<currentAgent, isDrawing, undoStack, canvasObjs, agents>>
    /\ UNCHANGED connVars

\* the mermaid form: AgentManager.addMermaidDiagram, non-blank content
AddMermaidControl(t) == AddMermaid("addMermaidDiagram", "human", t, <<>>, <<>>)

\* a diagram's Remove button: CanvasManager.removeMermaidDiagram
RemoveMermaidControl(diagramId) ==
    /\ \E i \in DOMAIN dom : dom[i].id = diagramId
    /\ dom' = RemoveMermaidDom(dom, diagramId)
    /\ layers' = RemoveMermaidLayers(layers, diagramId)
    /\ added' = LET gone == Range(dom) \ Range(RemoveMermaidDom(dom, diagramId))
                IN  [o \in DOMAIN added |-> added[o] \ {e.oid : e \in gone}]
    /\ emitted' = <<>>
    /\ notes' = <<>>
    /\ UNCHANGED viewVars
    /\ lastOp' = Op("removeMermaidDiagram", NoAgent)
    /\ UNCHANGED <<currentAgent, isDrawing, undoStack, canvasObjs, now, nextOid, agents>>
    /\ UNCHANGED connVars

\* ------------------------------------------------------------ inbound messages
\* onmessage runs for every socket whose listeners were installed and that is open
AnyOpen == \E s \in DOMAIN socks : socks[s] = "open"

\* ConversationManager.handleCanvasAction: one system note per canvas action
CanvasActionNote == <<"system">>

\* canvas_action / draw: CanvasManager.addAgentDrawing
HandleCanvasDraw(agentId) ==
    /\ AnyOpen
    /\ nextOid <= MaxObjects
    /\ LET path == PathObj(nextOid, agentId)
       IN  /\ canvasObjs' = canvasObjs \cup {path}
           /\ layers' = PushToLayer(layers, agentId, path)
    /\ nextOid' = nextOid + 1
    /\ added' = AddedPut(added, agentId, nextOid)
    /\ emitted' = <<>>
    /\ notes' = CanvasActionNote
    /\ UNCHANGED viewVars
    /\ lastOp' = Op("recv:draw", NoAgent)
    /\ UNCHANGED <<currentAgent, isDrawing, undoStack, dom, now, agents>>
    /\ UNCHANGED connVars

\* canvas_action / mermaid: CanvasManager.addMermaidDiagram with the sender's id
HandleCanvasMermaid(agentId, t) ==
    /\ AnyOpen
    /\ AddMermaid("recv:mermaid", agentId, t, <<>>, CanvasActionNote)

\* canvas_action / clear: CanvasManager.clearCanvas
HandleCanvasClear ==
    /\ AnyOpen
    /\ canvasObjs' = {}
    /\ layers' = ClearCanvasLayers(layers)
    /\ undoStack' = <<>>
    /\ emitted' = sendCanvasAction(<<>>, "clear", "system", NoAgent)
    /\ notes' = CanvasActionNote
    /\ added' = [o \in DOMAIN added |-> {}]
    /\ UNCHANGED viewVars
    /\ lastOp' = Op("recv:clear", NoAgent)
    /\ UNCHANGED <<currentAgent, isDrawing, dom, now, nextOid, agents>>
    /\ UNCHANGED connVars

\* canvas_action / layer_cleared: two notes, no store access
HandleCanvasLayerCleared(agentId) ==
    /\ AnyOpen
    /\ emitted' = <<>>
    /\ notes' = <<"system">> \o CanvasActionNote
    /\ UNCHANGED viewVars
    /\ lastOp' = Op("recv:canvas_layer_cleared", agentId)
    /\ UNCHANGED canvasVars
    /\ UNCHANGED agents
    /\ UNCHANGED connVars

\* message type layer_cleared: CanvasManager.clearAgentLayer(message.agent_id)
HandleLayerCleared(agentId) ==
    /\ AnyOpen
    /\ canvasObjs' = ClearAgentLayerCanvas(canvasObjs, layers, agentId)
    /\ layers' = ClearAgentLayerLayers(layers, agentId)
    /\ emitted' = ClearAgentLayerSends(<<>>, layers, agentId)
    /\ notes' = <<"system">>
    /\ added' = AddedClear(added, agentId)
    /\ UNCHANGED viewVars
    /\ lastOp' = ClearOp("recv:layer_cleared", agentId)
    /\ UNCHANGED <<currentAgent, isDrawing, undoStack, dom, now, nextOid, agents>>
    /\ UNCHANGED connVars

\* the default branch of handleMessage: a type without a case, such as
\* clear_agent_layer, is logged to the console and dropped
HandleUnknownMessage(type, agentId) ==
    /\ AnyOpen
    /\ emitted' = <<>>
    /\ notes' = <<>>
    /\ UNCHANGED viewVars
    /\ lastOp' = Op("recv:" \o type, agentId)
    /\ UNCHANGED canvasVars
    /\ UNCHANGED agents
    /\ UNCHANGED connVars

\* inbound frames that are not a well-formed message of a known type
MalformedShapes ==
    {"unparseable", "agent_added:no agent", "agent_added:no tools",
     "agent_removed:no agent_id", "canvas_action:no action", "draw:no path",
     "draw:no agent_id", "modification_request:no action"}

\* the registry after onmessage has run on a malformed frame: addAgentToUI
\* starts with agents.set(agent.id, agent) and throws at agent.tools.map when
\* the agent has no tools; every other shape throws before, or never reaches,
\* a write of the registry
MalformedAgents(reg, shape, agentId, active) ==
    IF shape = "agent_added:no tools" THEN MapSet(reg, agentId, active) ELSE reg

\* the conversation notes of the handlers that run to their end
MalformedNotes(shape) ==
    IF shape \in {"agent_removed:no agent_id", "draw:no path", "draw:no agent_id"}
    THEN <<"system">> ELSE <<>>

\* ws.onmessage on a malformed frame: JSON.parse and handleMessage inside
\* try/catch; a draw without agent_id runs addAgentDrawing(undefined, path)
HandleMalformed(shape, agentId, active) ==
    /\ AnyOpen
    /\ agents' = MalformedAgents(agents, shape, agentId, active)
    /\ IF shape = "draw:no agent_id"
       THEN /\ nextOid <= MaxObjects
            /\ canvasObjs' = canvasObjs \cup {PathObj(nextOid, NoAgent)}
            /\ layers' = PushToLayer(layers, NoAgent, PathObj(nextOid, NoAgent))
            /\ nextOid' = nextOid + 1
            /\ added' = AddedPut(added, NoAgent, nextOid)
       ELSE UNCHANGED <<canvasObjs, layers, nextOid, added>>
    /\ emitted' = <<>>
    /\ notes' = MalformedNotes(shape)
    /\ UNCHANGED viewVars
    /\ lastOp' = Op("recv:malformed", shape)
    /\ UNCHANGED <<currentAgent, isDrawing, undoStack, dom, now>>
    /\ UNCHANGED connVars

\* addAgentToUI: the card appended for the agent shows 0; getElementById keeps
\* finding an earlier card of the same id
AddAgentCard(texts, agentId) ==
    IF agentId \in DOMAIN texts THEN texts ELSE MapSet(texts, agentId, 0)

\* agent_added: addAgentToUI, which starts with agents.set(agent.id, agent)
HandleAgentAdded(agentId, active) ==
    /\ AnyOpen
    /\ agents' = MapSet(agents, agentId, active)
    /\ emitted' = <<>>
    /\ notes' = <<"system">>
    /\ layerCountText' = AddAgentCard(layerCountText, agentId)
    /\ UNCHANGED <<gestureAgent, statusText, download>>
    /\ lastOp' = Op("recv:agent_added", NoAgent)
    /\ UNCHANGED canvasVars
    /\ UNCHANGED connVars

\* agent_removed: agents.delete(message.agent_id)
HandleAgentRemoved(agentId) ==
    /\ AnyOpen
    /\ agents' = MapDelete(agents, agentId)
    /\ emitted' = <<>>
    /\ notes' = <<"system">>
    /\ layerCountText' = MapDelete(layerCountText, agentId)
    /\ UNCHANGED <<gestureAgent, statusText, download>>
    /\ lastOp' = Op("recv:agent_removed", NoAgent)
    /\ UNCHANGED canvasVars
    /\ UNCHANGED connVars

\* ------------------------------------------------------------ the active flag
\* the JSON text of a flag inside a message
JsonBool(b) == IF b THEN "true" ELSE "false"

\* updateAgentInUI on the cards: an existing card is rewritten with count 0,
\* then updateLayerInfo writes the count when getLayerInfo() has the id
updateAgentInUICard(texts, ls, agentId) ==
    IF agentId \in DOMAIN texts
    THEN MapSet(texts, agentId, IF agentId \in DOMAIN ls THEN Len(ls[agentId]) ELSE 0)
    ELSE texts

\* the status toggle of a card: AgentManager.toggleAgentStatus
ToggleAgentStatus(agentId) ==
    /\ agentId \in DOMAIN agents
    /\ agents' = MapSet(agents, agentId, ~agents[agentId])
    /\ layerCountText' = updateAgentInUICard(layerCountText, layers, agentId)
    /\ emitted' = sendMessage(<<>>, Msg("update_agent", NoAgent, agentId,
                                        JsonBool(~agents[agentId])))
    /\ notes' = <<>>
    /\ UNCHANGED <<gestureAgent, statusText, download>>
    /\ lastOp' = Op("toggleAgentStatus", agentId)
    /\ UNCHANGED canvasVars
    /\ UNCHANGED connVars

\* the edit form's Save: AgentManager.updateAgent sends the form's fields with
\* is_active: true and writes nothing locally
UpdateAgentControl(agentId) ==
    /\ agentId \in DOMAIN agents
    /\ emitted' = sendMessage(<<>>, Msg("update_agent", NoAgent, agentId, JsonBool(TRUE)))
    /\ notes' = <<>>
    /\ UNCHANGED viewVars
    /\ lastOp' = Op("updateAgent", agentId)
    /\ UNCHANGED agents
    /\ UNCHANGED canvasVars
    /\ UNCHANGED connVars

\* agent_updated: updateAgentInUI(message.agent), then a system note
HandleAgentUpdated(agentId, active) ==
    /\ AnyOpen
    /\ agents' = MapSet(agents, agentId, active)
    /\ layerCountText' = updateAgentInUICard(layerCountText, layers, agentId)
    /\ emitted' = <<>>
    /\ notes' = <<"system">>
    /\ UNCHANGED <<gestureAgent, statusText, download>>
    /\ lastOp' = Op("recv:agent_updated", agentId)
    /\ UNCHANGED canvasVars
    /\ UNCHANGED connVars

\* the agent_updated frames the server broadcasts for the messages a handler
\* handed over: one for every update_agent that left, with the agent it carried
ServerAgentUpdated(out) ==
    {out[i].msg : i \in {j \in DOMAIN out : out[j].ok /\ out[j].msg.type = "update_agent"}}

\* the broadcast for the update_agent just sent comes back to this viewer
DeliverAgentUpdated ==
    \E m \in ServerAgentUpdated(emitted) :
        HandleAgentUpdated(m.agent_id, m.arg = JsonBool(TRUE))

\* AgentManager.getActiveAgents, as the ids of the agents it returns
getActiveAgents ==
    {e[1] : e \in {x \in {<<id, agents[id]>> : id \in DOMAIN agents} : x[2]}}

\* --------------------------------------------------------- periodic updates
\* agents.forEach((agent, agentId) => updateLayerInfo(agentId)): the count of a
\* card is rewritten when getLayerInfo() has an entry for the id, and is left
\* as it is when it has none
ReconcileLayerInfo(texts, ls, reg) ==
    [id \in DOMAIN texts |->
        IF id \in DOMAIN reg /\ id \in DOMAIN ls THEN Len(ls[id]) ELSE texts[id]]

\* the 5 s interval of setupPeriodicUpdates, and the 100 ms timer that
\* handleCanvasAction starts, both running the same loop
LayerInfoTick ==
    /\ layerCountText' = ReconcileLayerInfo(layerCountText, layers, agents)
    /\ emitted' = <<>>
    /\ notes' = <<>>
    /\ lastOp' = Op("tick:layers", NoAgent)
    /\ UNCHANGED <<gestureAgent, statusText, agents, download>>
    /\ UNCHANGED canvasVars
    /\ UNCHANGED connVars

\* ------------------------------------------------------------ saved sessions
\* the identities the objects of a loaded session get: fabric objects of the
\* canvas first, layer entries after them, each in the order of the saved ones
CanvasRank(cv, oid) == Cardinality({o \in cv : o.oid <= oid})

LayerOids(ls) == UNION {{o.oid : o \in Range(ls[k])} : k \in DOMAIN ls}

LayerRank(ls, oid) == Cardinality({x \in LayerOids(ls) : x <= oid})

\* JSON.stringify / JSON.parse of one object: a new object; data survives only
\* if the serializer includes it (keepsData); a diagram entry keeps its id
Revive(o, oid, keepsData) ==
    [oid |-> oid, kind |-> o.kind,
     agent |-> IF keepsData THEN o.agent ELSE NoAgent, id |-> o.id]

\* getCanvasState().canvas through localStorage into canvas.loadFromJSON
LoadedCanvas(cv, keepsData) ==
    {Revive(o, CanvasRank(cv, o.oid), keepsData) : o \in cv}

\* canvas.loadFromJSON of a snapshot: the surface is emptied and refilled with
\* copies of the snapshot's objects (a copy keeps the oid of its original)
loadFromJSON(snapshot, keepsData) == {Revive(o, o.oid, keepsData) : o \in snapshot}

\* the surface after undoLastAction: the snapshot popped off the stack, loaded
undoLastActionSurface(stack, cv, keepsData) ==
    IF Len(stack) > 0 THEN loadFromJSON(stack[Len(stack)], keepsData) ELSE cv

\* #undo-last: CanvasManager.undoLastAction; the layers are not touched
UndoLastAction(keepsData) ==
    /\ ~isDrawing
    /\ undoStack' = IF Len(undoStack) > 0
                    THEN SubSeq(undoStack, 1, Len(undoStack) - 1) ELSE undoStack
    /\ canvasObjs' = undoLastActionSurface(undoStack, canvasObjs, keepsData)
    /\ emitted' = <<>>
    /\ notes' = <<>>
    /\ UNCHANGED viewVars
    /\ lastOp' = [Op("undoLastAction", NoAgent) EXCEPT !.count = Len(undoStack)]
    /\ UNCHANGED <<currentAgent, isDrawing, layers, dom, now, nextOid, added, agents>>
    /\ UNCHANGED connVars

\* a loaded state that drops the "human" entry
LoadedLayersWithoutHuman(cv, ls, keepsData) ==
    [k \in (DOMAIN ls) \ {"human"} |->
        [i \in 1..Len(ls[k]) |->
            Revive(ls[k][i], Cardinality(cv) + LayerRank(ls, ls[k][i].oid), keepsData)]]

\* getCanvasState().layers through localStorage into new Map(state.layers)
LoadedLayers(cv, ls, keepsData) ==
    [k \in DOMAIN ls |->
        [i \in 1..Len(ls[k]) |->
            Revive(ls[k][i], Cardinality(cv) + LayerRank(ls, ls[k][i].oid), keepsData)]]

\* the page is left and opened again: beforeunload saves getCanvasState(), the
\* scripts of the new page construct the managers, DOMContentLoaded loads the
\* saved state before any socket event
Reload(keepsData) ==
    /\ ~isDrawing
    /\ layers' = LoadedLayers(canvasObjs, layers, keepsData)
    /\ canvasObjs' = LoadedCanvas(canvasObjs, keepsData)
    /\ nextOid' = Cardinality(canvasObjs) + Cardinality(LayerOids(layers)) + 1
    /\ added' = [o \in DOMAIN added |->
                    {x.oid : x \in Range(LayerOf(layers', o))}]
    /\ dom' = <<>>
    /\ undoStack' = <<>>
    /\ currentAgent' = NoAgent
    /\ isDrawing' = FALSE
    /\ agents' = EmptyMap
    /\ socks' = <<"connecting">>
    /\ isConnected' = FALSE
    /\ reconnectAttempts' = 0
    /\ reconnectTimers' = <<>>
    /\ discoverTimers' = 0
    /\ schedSinceOpen' = 0
    /\ failedSinceOpen' = 0
    /\ ceilingHit' = FALSE
    /\ emitted' = <<>>
    /\ notes' = <<>>
    /\ gestureAgent' = NoAgent
    /\ layerCountText' = EmptyMap
    /\ statusText' = NoStatus
    /\ download' = NoDownload
    /\ lastOp' = Op("loadCanvasState", NoAgent)
    /\ UNCHANGED now

\* what localStorage may hold under 'canvasState' when it is not a state that
\* saveCanvasState wrote: nothing, text that is no JSON, the JSON value null,
\* an object whose layers are missing, an object whose layers are no iterable
StoredShapes ==
    {"missing", "unparseable", "null", "no layers", "layers not iterable"}

\* the shapes on which CanvasManager.loadCanvasState reaches
\* canvas.loadFromJSON(state.canvas)
StoredReachesCanvas(shape) == shape \in {"no layers", "layers not iterable"}

\* this.layers after session start: new Map(undefined) is an empty Map; new
\* Map of a non-iterable throws before the assignment; the other shapes never
\* reach the assignment, and the layers stay as init() made them
StoredLayers(shape) ==
    IF shape = "no layers" THEN EmptyMap ELSE MapSet(EmptyMap, "human", <<>>)

\* an error leaves MainApp.loadCanvasState: JSON.parse and
\* canvasManager.loadCanvasState run inside its try/catch
StoredEscapes(shape) == FALSE

\* the page is opened with such a value in localStorage; the canvas of the
\* stored object, when there is one, is the canvas of the session before
LoadStored(shape, keepsData) ==
    /\ ~isDrawing
    /\ layers' = StoredLayers(shape)
    /\ canvasObjs' = IF StoredReachesCanvas(shape)
                     THEN LoadedCanvas(canvasObjs, keepsData) ELSE {}
    /\ nextOid' = Cardinality(canvasObjs') + 1
    /\ added' = [o \in DOMAIN added |-> {}]
    /\ dom' = <<>>
    /\ undoStack' = <<>>
    /\ currentAgent' = NoAgent
    /\ isDrawing' = FALSE
    /\ agents' = EmptyMap
    /\ socks' = <<"connecting">>
    /\ isConnected' = FALSE
    /\ reconnectAttempts' = 0
    /\ reconnectTimers' = <<>>
    /\ discoverTimers' = 0
    /\ schedSinceOpen' = 0
    /\ failedSinceOpen' = 0
    /\ ceilingHit' = FALSE
    /\ emitted' = <<>>
    /\ notes' = <<>>
    /\ gestureAgent' = NoAgent
    /\ layerCountText' = EmptyMap
    /\ statusText' = NoStatus
    /\ download' = NoDownload
    /\ lastOp' = [Op("loadStored", shape) EXCEPT !.rejected = StoredEscapes(shape)]
    /\ UNCHANGED now

\* ------------------------------------------------------------ session export
\* a getCanvasState that hands the Map itself to the serializer
getCanvasStateLayersAsMap(ls) == [class |-> "Map", entries |-> ls]

\* getCanvasState().layers: Array.from(this.layers.entries())
getCanvasStateLayers(ls) == [class |-> "Array", entries |-> ls]

\* JSON.stringify then JSON.parse of the layers value: an array of entries
\* keeps every entry, each object as a copy without identity; a Map has no
\* enumerable properties and comes back as {}
ParsedLayers(v, keepsData) ==
    IF v.class = "Array"
    THEN [k \in DOMAIN v.entries |->
            [i \in 1..Len(v.entries[k]) |-> Revive(v.entries[k][i], NoOid, keepsData)]]
    ELSE EmptyMap

\* Array.from(agentManager.agents.values()) through JSON
ParsedAgents(reg) == {[id |-> a, is_active |-> reg[a]] : a \in DOMAIN reg}

\* getLayerStats(): one entry per layer with its object_count
getLayerStats(ls) == [k \in DOMAIN ls |-> Len(ls[k])]

\* the keys of sessionData
exportSessionFields == {"timestamp", "agents", "canvas", "conversation", "layerStats"}

\* MainApp.exportSession: the downloaded file, parsed; layers is canvas.layers
exportSession(keepsData) ==
    [fields |-> exportSessionFields,
     agents |-> ParsedAgents(agents),
     layers |-> ParsedLayers(getCanvasStateLayers(layers), keepsData),
     layerStats |-> getLayerStats(layers)]

\* the export control
ExportSessionControl(keepsData) ==
    /\ download' = exportSession(keepsData)
    /\ emitted' = <<>>
    /\ notes' = <<>>
    /\ lastOp' = Op("exportSession", NoAgent)
    /\ UNCHANGED <<gestureAgent, layerCountText, statusText, agents>>
    /\ UNCHANGED canvasVars
    /\ UNCHANGED connVars

\* ------------------------------------------------------ modification requests
\* a request handler that clears the target's layer
RequestModificationLayersClears(ls, toAgentId) ==
    IF toAgentId \in DOMAIN ls THEN MapSet(ls, toAgentId, <<>>) ELSE ls

\* requestModification / handleModificationRequest: the layer map afterwards
\* (no statement of either handler reaches this.layers)
RequestModificationLayers(ls, toAgentId) == ls

\* AgentManager.requestModification: the test that lets the request through
RequestModificationValid(reg, fromAgentId, toAgentId) ==
    fromAgentId \in DOMAIN reg /\ toAgentId \in DOMAIN reg

\* CanvasManager.requestModification: the canvas action handed to the channel
RequestModificationSends(out, fromAgentId, toAgentId) ==
    sendCanvasAction(out, "modification_request", fromAgentId, toAgentId)

RequestOp(op, fromAgentId, toAgentId) ==
    [Op(op, NoAgent) EXCEPT !.actor = fromAgentId, !.targetAgent = toAgentId]

\* AgentManager.requestModification(fromAgentId, toAgentId, requestData), called
\* by the request form or by a script holding window.agentManager
RequestModification(fromAgentId, toAgentId) ==
    /\ LET valid == RequestModificationValid(agents, fromAgentId, toAgentId)
       IN  /\ emitted' = IF valid
                         THEN RequestModificationSends(<<>>, fromAgentId, toAgentId)
                         ELSE <<>>
           /\ notes' = IF valid THEN <<"system">> ELSE <<>>
    /\ layers' = RequestModificationLayers(layers, toAgentId)
    /\ UNCHANGED viewVars
    /\ lastOp' = RequestOp("requestModification", fromAgentId, toAgentId)
    /\ UNCHANGED <<currentAgent, isDrawing, undoStack, canvasObjs, dom, now, nextOid,
                   added, agents>>
    /\ UNCHANGED connVars

\* canvas.requestModification(fromAgentId, toAgentId, requestData): the method
\* setupEventListeners binds onto the fabric canvas for agents
CanvasRequestModification(fromAgentId, toAgentId) ==
    /\ emitted' = RequestModificationSends(<<>>, fromAgentId, toAgentId)
    /\ notes' = <<>>
    /\ layers' = RequestModificationLayers(layers, toAgentId)
    /\ UNCHANGED viewVars
    /\ lastOp' = RequestOp("canvas.requestModification", fromAgentId, toAgentId)
    /\ UNCHANGED <<currentAgent, isDrawing, undoStack, canvasObjs, dom, now, nextOid,
                   added, agents>>
    /\ UNCHANGED connVars

\* message type modification_request: AgentManager.handleModificationRequest
HandleModificationRequest(fromAgentId, toAgentId) ==
    /\ AnyOpen
    /\ emitted' = <<>>
    /\ notes' = IF RequestModificationValid(agents, fromAgentId, toAgentId)
                THEN <<"system">> ELSE <<>>
    /\ layers' = RequestModificationLayers(layers, toAgentId)
    /\ UNCHANGED viewVars
    /\ lastOp' = RequestOp("recv:modification_request", fromAgentId, toAgentId)
    /\ UNCHANGED <<currentAgent, isDrawing, undoStack, canvasObjs, dom, now, nextOid,
                   added, agents>>
    /\ UNCHANGED connVars

\* ------------------------------------------------------------------ connection
\* a timeout that does not grow with the attempts
reconnectTimeoutFlat(attempts) == reconnectDelay

\* the timeout of the setTimeout in handleConnectionError, read after the
\* increment: this.reconnectDelay * this.reconnectAttempts
reconnectTimeout(attempts) == reconnectDelay * attempts

\* handleConnectionError with the ceiling test off by one
handleConnectionErrorOffByOne(c) ==
    IF c.attempts <= maxReconnectAttempts
    THEN [c EXCEPT !.attempts = @ + 1,
                   !.timers = Append(@, reconnectTimeout(c.attempts + 1)),
                   !.sched = @ + 1]
    ELSE [c EXCEPT !.ceiling = TRUE]

\* WebSocketManager.handleConnectionError on the connection fields
handleConnectionError(c) ==
    IF c.attempts < maxReconnectAttempts
    THEN [c EXCEPT !.attempts = @ + 1,
                   !.timers = Append(@, reconnectTimeout(c.attempts + 1)),
                   !.sched = @ + 1]
    ELSE [c EXCEPT !.ceiling = TRUE]

ConnFields ==
    [attempts |-> reconnectAttempts, timers |-> reconnectTimers,
     sched |-> schedSinceOpen, ceiling |-> ceilingHit]

SetConnFields(c) ==
    /\ reconnectAttempts' = c.attempts
    /\ reconnectTimers' = c.timers
    /\ schedSinceOpen' = c.sched
    /\ ceilingHit' = c.ceiling

\* onerror: one call of handleConnectionError
OnError(c) == handleConnectionError(c)

\* onclose: handleConnectionError unless the close was clean
OnClose(c, wasClean) == IF wasClean THEN c ELSE handleConnectionError(c)

\* an onopen that leaves the attempt counter alone
OnOpenAttemptsKept(n) == n

\* onopen: this.reconnectAttempts = 0
OnOpenAttempts(n) == 0

\* an onopen that schedules no discovery
OnOpenDiscoverTimersNone(n) == n

\* onopen: setTimeout(() => agentManager.discoverAgents(), 1000)
OnOpenDiscoverTimers(n) == n + 1

\* updateConnectionStatus(connected, message): the text of #connection-status
updateConnectionStatus(connected, message) ==
    IF connected THEN "Online"
    ELSE IF message # NoStatus THEN message ELSE "Offline"

\* the text handleConnectionError leaves: its message at the ceiling, else the
\* text it found
handleConnectionErrorStatus(c, text) ==
    IF c.attempts < maxReconnectAttempts THEN text
    ELSE updateConnectionStatus(FALSE, "Max reconnection attempts reached")

\* onclose: updateConnectionStatus(false), then handleConnectionError unless
\* the close was clean
OnCloseStatus(c, wasClean) ==
    IF wasClean THEN updateConnectionStatus(FALSE, NoStatus)
    ELSE handleConnectionErrorStatus(c, updateConnectionStatus(FALSE, NoStatus))

\* ws.onopen
SocketOpens(s) ==
    /\ socks[s] = "connecting"
    /\ socks' = [socks EXCEPT ![s] = "open"]
    /\ isConnected' = TRUE
    /\ reconnectAttempts' = OnOpenAttempts(reconnectAttempts)
    /\ discoverTimers' = OnOpenDiscoverTimers(discoverTimers)
    /\ schedSinceOpen' = 0
    /\ failedSinceOpen' = 0
    /\ emitted' = <<>>
    /\ notes' = <<>>
    /\ statusText' = updateConnectionStatus(TRUE, NoStatus)
    /\ UNCHANGED <<gestureAgent, layerCountText, download>>
    /\ lastOp' = Op("socket:open", NoAgent)
    /\ UNCHANGED <<reconnectTimers, ceilingHit, agents>>
    /\ UNCHANGED canvasVars

\* a connection that fails: the browser fires error, then an unclean close
SocketFails(s) ==
    /\ socks[s] \in {"connecting", "open"}
    /\ socks' = [socks EXCEPT ![s] = "closed"]
    /\ isConnected' = FALSE
    /\ SetConnFields(OnClose(OnError(ConnFields), FALSE))
    /\ failedSinceOpen' = IF socks[s] = "connecting" /\ s > 1
                          THEN failedSinceOpen + 1 ELSE failedSinceOpen
    /\ emitted' = <<>>
    /\ notes' = <<>>
    /\ statusText' = OnCloseStatus(OnError(ConnFields), FALSE)
    /\ UNCHANGED <<gestureAgent, layerCountText, download>>
    /\ lastOp' = [Op("socket:fail", NoAgent) EXCEPT !.count = reconnectAttempts]
    /\ UNCHANGED <<discoverTimers, agents>>
    /\ UNCHANGED canvasVars

\* an open connection that ends with a close event only, clean or not
SocketCloses(s, wasClean) ==
    /\ socks[s] = "open"
    /\ socks' = [socks EXCEPT ![s] = "closed"]
    /\ isConnected' = FALSE
    /\ SetConnFields(OnClose(ConnFields, wasClean))
    /\ emitted' = <<>>
    /\ notes' = <<>>
    /\ statusText' = OnCloseStatus(ConnFields, wasClean)
    /\ UNCHANGED <<gestureAgent, layerCountText, download>>
    /\ lastOp' = [Op(IF wasClean THEN "socket:close" ELSE "socket:lost", NoAgent)
                      EXCEPT !.count = reconnectAttempts]
    /\ UNCHANGED <<discoverTimers, failedSinceOpen, agents>>
    /\ UNCHANGED canvasVars

\* a reconnect timer fires: connect() creates the next socket
ReconnectTimerFires(i, bound) ==
    /\ i \in DOMAIN reconnectTimers
    /\ Len(socks) < bound
    /\ reconnectTimers' = RemoveAt(reconnectTimers, i)
    /\ socks' = Append(socks, "connecting")
    /\ emitted' = <<>>
    /\ notes' = <<>>
    /\ UNCHANGED viewVars
    /\ lastOp' = Op("connect", NoAgent)
    /\ UNCHANGED <<isConnected, reconnectAttempts, discoverTimers, schedSinceOpen,
                   failedSinceOpen, ceilingHit, agents>>
    /\ UNCHANGED canvasVars

\* the timer of onopen fires: AgentManager.discoverAgents
DiscoverTimerFires ==
    /\ discoverTimers > 0
    /\ discoverTimers' = discoverTimers - 1
    /\ emitted' = sendMessage(<<>>, Msg("discover_agents", NoAgent, NoAgent, NoAgent))
    /\ notes' = <<>>
    /\ UNCHANGED viewVars
    /\ lastOp' = Op("discoverAgents", NoAgent)
    /\ UNCHANGED <<socks, isConnected, reconnectAttempts, reconnectTimers,
                   schedSinceOpen, failedSinceOpen, ceilingHit, agents>>
    /\ UNCHANGED canvasVars

\* the test of the 5 s interval of setupConnectionStatus
SocketIsOpen == ws > 0 /\ socks[ws] = "open"

\* setupConnectionStatus: updateConnectionStatus(ws.readyState === OPEN)
SocketStatusTick ==
    /\ statusText' = updateConnectionStatus(SocketIsOpen, NoStatus)
    /\ emitted' = <<>>
    /\ notes' = <<>>
    /\ lastOp' = Op("tick:readyState", NoAgent)
    /\ UNCHANGED <<gestureAgent, layerCountText, agents, download>>
    /\ UNCHANGED canvasVars
    /\ UNCHANGED connVars

\* setupPeriodicUpdates, 10 s interval: updateConnectionStatus(isConnected)
AppStatusTick ==
    /\ statusText' = updateConnectionStatus(isConnected, NoStatus)
    /\ emitted' = <<>>
    /\ notes' = <<>>
    /\ lastOp' = Op("tick:isConnected", NoAgent)
    /\ UNCHANGED <<gestureAgent, layerCountText, agents, download>>
    /\ UNCHANGED canvasVars
    /\ UNCHANGED connVars

\* ------------------------------------------------------------------ the wire
\* a channel that transmits every submitted message, open or not
TransmitAll(w, out, base) ==
    w \o [i \in 1..Len(out) |-> [call |-> base + i, msg |-> out[i].msg]]

\* ws.send(JSON.stringify(message)) inside sendMessage: of the calls a handler
\* made (numbered from base + 1), those that passed the guard reach the wire,
\* once each and in call order
Transmit(w, out, base) ==
    LET tagged == [i \in 1..Len(out) |->
                      [call |-> base + i, msg |-> out[i].msg, ok |-> out[i].ok]]
        passed == SelectSeq(tagged, LAMBDA e : e.ok)
    IN  w \o [i \in 1..Len(passed) |-> [call |-> passed[i].call, msg |-> passed[i].msg]]

\* the log of the handler that just ran
Logged ==
    /\ calls + Len(emitted') <= MaxSends
    /\ calls' = calls + Len(emitted')
    /\ wire' = Transmit(wire, emitted', calls)
    /\ UNCHANGED relay

\* ------------------------------------------------------------ two viewers
\* the clear canvas_actions among the sendMessage calls that reached the socket
ClearsSent(out) ==
    Cardinality({i \in DOMAIN out :
        out[i].ok /\ out[i].msg.type = "canvas_action" /\ out[i].msg.action_type = "clear"})

\* the relay of the specification: a canvas_action is rebroadcast to all other
\* connected viewers, here the one peer
RelayToPeer(r, n) == [r EXCEPT !.toPeer = @ + n]

\* the participant clicks Clear Canvas; the relay forwards the clear to the peer
LocalClear ==
    /\ relay.local < MaxLocalClears
    /\ ClearCanvasControl
    /\ relay' = [RelayToPeer(relay, ClearsSent(emitted')) EXCEPT !.local = @ + 1]
    /\ UNCHANGED <<calls, wire>>

\* a relayed clear arrives here: handleCanvasAction runs clearCanvas, and what
\* clearCanvas sends goes to the peer
DeliverToLocal ==
    /\ relay.toLocal > 0
    /\ HandleCanvasClear
    /\ relay' = RelayToPeer([relay EXCEPT !.toLocal = @ - 1], ClearsSent(emitted'))
    /\ UNCHANGED <<calls, wire>>

\* a relayed clear arrives at the peer, a connected viewer running the same
\* script: its clearCanvas sends one clear, which the relay forwards here
DeliverToPeer ==
    /\ relay.toPeer > 0
    /\ relay' = [relay EXCEPT !.toPeer = @ - 1, !.toLocal = @ + 1]
    /\ emitted' = <<>>
    /\ notes' = <<>>
    /\ lastOp' = Op("peer:recv:clear", NoAgent)
    /\ UNCHANGED <<calls, wire, agents>>
    /\ UNCHANGED viewVars
    /\ UNCHANGED canvasVars
    /\ UNCHANGED connVars

\* ------------------------------------------------------------- specifications
ConnNext(bound) ==
    \/ \E s \in DOMAIN socks : SocketOpens(s) /\ UNCHANGED wireVars
    \/ \E s \in DOMAIN socks : SocketFails(s) /\ UNCHANGED wireVars
    \/ \E s \in DOMAIN socks, wasClean \in BOOLEAN : SocketCloses(s, wasClean) /\ UNCHANGED wireVars
    \/ \E i \in DOMAIN reconnectTimers : ReconnectTimerFires(i, bound) /\ UNCHANGED wireVars
    \/ DiscoverTimerFires /\ UNCHANGED wireVars

CanvasNext ==
    \/ \E t \in {NoOid} \cup {o.oid : o \in canvasObjs} :
          Len(undoStack) < MaxGestures /\ MouseDown(t) /\ UNCHANGED wireVars
    \/ PathCreated /\ UNCHANGED wireVars
    \/ MouseUp /\ UNCHANGED wireVars
    \/ \E a \in Agents : SetAgentDrawingMode(a) /\ UNCHANGED wireVars
    \/ ClearCanvasControl /\ UNCHANGED wireVars
    \/ \E a \in Agents : ClearLayerControl(a) /\ UNCHANGED wireVars
    \/ \E a \in Agents : RemoveAgentControl(a) /\ UNCHANGED wireVars
    \/ \E t \in 0..MaxClock : AddMermaidControl(t) /\ UNCHANGED wireVars
    \/ \E d \in 0..MaxClock : RemoveMermaidControl(d) /\ UNCHANGED wireVars
    \/ \E a \in Agents : HandleCanvasDraw(a) /\ UNCHANGED wireVars
    \/ \E a \in Agents, t \in 0..MaxClock : HandleCanvasMermaid(a, t) /\ UNCHANGED wireVars
    \/ HandleCanvasClear /\ UNCHANGED wireVars
    \/ \E a \in Agents : HandleCanvasLayerCleared(a) /\ UNCHANGED wireVars
    \/ \E a \in OwnerIds : HandleLayerCleared(a) /\ UNCHANGED wireVars
    \/ \E a \in Agents : HandleUnknownMessage("clear_agent_layer", a) /\ UNCHANGED wireVars
    \/ \E a \in Agents : HandleAgentAdded(a, TRUE) /\ UNCHANGED wireVars
    \/ \E a \in Agents : HandleAgentRemoved(a) /\ UNCHANGED wireVars

\* the channel as the canvas handlers see it: the socket of the session opens,
\* and closes on the server's close frame
ChannelNext ==
    \/ \E s \in DOMAIN socks : SocketOpens(s) /\ UNCHANGED wireVars
    \/ \E s \in DOMAIN socks : SocketCloses(s, TRUE) /\ UNCHANGED wireVars

Next == CanvasNext \/ ChannelNext

\* the canvas, the registry and the channel
Spec == Init /\ [][Next]_vars

\* the connection life cycle: failures, reconnect timers, discovery
ConnSpec == Init /\ [][ConnNext(MaxConnSockets)]_vars

\* the handlers of modification requests, with the handlers that fill the
\* registry and the layers they could touch
ReqNext ==
    \/ \E f \in Agents, t \in Agents : RequestModification(f, t) /\ UNCHANGED wireVars
    \/ \E f \in Agents, t \in Agents : CanvasRequestModification(f, t) /\ UNCHANGED wireVars
    \/ \E f \in Agents, t \in Agents : HandleModificationRequest(f, t) /\ UNCHANGED wireVars
    \/ \E a \in Agents : HandleAgentAdded(a, TRUE) /\ UNCHANGED wireVars
    \/ \E a \in Agents : HandleAgentRemoved(a) /\ UNCHANGED wireVars
    \/ \E a \in Agents : HandleCanvasDraw(a) /\ UNCHANGED wireVars
    \/ \E a \in Agents, t \in 0..MaxClock : HandleCanvasMermaid(a, t) /\ UNCHANGED wireVars
    \/ \E a \in Agents : SetAgentDrawingMode(a) /\ UNCHANGED wireVars
    \/ ChannelNext

\* modification requests between registered and unregistered agents
ReqSpec == Init /\ [][ReqNext]_vars

\* the handlers that write the layer map, over sessions that are reloaded
SessionNext ==
    \/ \E t \in {NoOid} \cup {o.oid : o \in canvasObjs} :
          Len(undoStack) < MaxGestures /\ MouseDown(t) /\ UNCHANGED wireVars
    \/ PathCreated /\ UNCHANGED wireVars
    \/ MouseUp /\ UNCHANGED wireVars
    \/ \E a \in Agents : SetAgentDrawingMode(a) /\ UNCHANGED wireVars
    \/ ClearCanvasControl /\ UNCHANGED wireVars
    \/ \E a \in Agents : ClearLayerControl(a) /\ UNCHANGED wireVars
    \/ \E a \in Agents : RemoveAgentControl(a) /\ UNCHANGED wireVars
    \/ \E t \in 0..MaxClock : AddMermaidControl(t) /\ UNCHANGED wireVars
    \/ \E a \in Agents : HandleCanvasDraw(a) /\ UNCHANGED wireVars
    \/ \E a \in Agents, t \in 0..MaxClock : HandleCanvasMermaid(a, t) /\ UNCHANGED wireVars
    \/ HandleCanvasClear /\ UNCHANGED wireVars
    \/ \E a \in OwnerIds : HandleLayerCleared(a) /\ UNCHANGED wireVars
    \/ \E a \in Agents : HandleAgentAdded(a, TRUE) /\ UNCHANGED wireVars
    \/ \E keepsData \in BOOLEAN : Reload(keepsData) /\ UNCHANGED wireVars
    \/ ChannelNext

\* the layer store across page loads
SessionSpec == Init /\ [][SessionNext]_vars

\* the connection life cycle with three senders, every send call logged
WireNext ==
    \/ \E s \in DOMAIN socks : SocketOpens(s) /\ Logged
    \/ \E s \in DOMAIN socks : SocketFails(s) /\ Logged
    \/ \E s \in DOMAIN socks, wasClean \in BOOLEAN : SocketCloses(s, wasClean) /\ Logged
    \/ \E i \in DOMAIN reconnectTimers : ReconnectTimerFires(i, MaxWireSockets) /\ Logged
    \/ DiscoverTimerFires /\ Logged
    \/ ClearCanvasControl /\ Logged
    \/ HandleAgentAdded("A", TRUE) /\ Logged
    \/ ClearLayerControl("A") /\ Logged

\* what reaches the wire over disconnections and reconnections
WireSpec == Init /\ [][WireNext]_vars

\* the connection life cycle with every timer that is due firing; whether a
\* socket opens, fails or closes is up to the network
LiveSpec ==
    /\ Init
    /\ [][ConnNext(MaxWireSockets)]_vars
    /\ WF_vars(DiscoverTimerFires /\ UNCHANGED wireVars)
    /\ WF_vars(\E i \in DOMAIN reconnectTimers :
                  ReconnectTimerFires(i, MaxWireSockets) /\ UNCHANGED wireVars)

\* gestures without a bound on their number: clicks and strokes fill the undo
\* stack, inbound drawings change what a snapshot holds
UndoNext ==
    \/ MouseDown(NoOid) /\ UNCHANGED wireVars
    \/ PathCreated /\ UNCHANGED wireVars
    \/ MouseUp /\ UNCHANGED wireVars
    \/ \E s \in DOMAIN socks : SocketOpens(s) /\ UNCHANGED wireVars
    \/ HandleCanvasDraw("A") /\ UNCHANGED wireVars

\* the undo stack under any number of gestures
UndoSpec == Init /\ [][UndoNext]_vars

\* gestures and undo: at most MaxRollbackGestures snapshots are on the stack
RollbackNext ==
    \/ MouseDown(NoOid) /\ Len(undoStack) < MaxRollbackGestures /\ UNCHANGED wireVars
    \/ PathCreated /\ UNCHANGED wireVars
    \/ MouseUp /\ UNCHANGED wireVars
    \/ \E keepsData \in BOOLEAN : UndoLastAction(keepsData) /\ UNCHANGED wireVars
    \/ \E s \in DOMAIN socks : SocketOpens(s) /\ UNCHANGED wireVars
    \/ HandleCanvasDraw("A") /\ UNCHANGED wireVars

\* the surface under gestures and undo
RollbackSpec == Init /\ [][RollbackNext]_vars

\* the registry of one viewer: agents arrive under new ids, flags are toggled,
\* agents are edited, and the server's broadcasts come back
RegistryNext ==
    \/ \E s \in DOMAIN socks : SocketOpens(s) /\ UNCHANGED wireVars
    \/ \E s \in DOMAIN socks, wasClean \in BOOLEAN :
          SocketCloses(s, wasClean) /\ UNCHANGED wireVars
    \/ \E i \in DOMAIN reconnectTimers :
          ReconnectTimerFires(i, MaxWireSockets) /\ UNCHANGED wireVars
    \/ DiscoverTimerFires /\ UNCHANGED wireVars
    \/ \E a \in Agents, active \in BOOLEAN :
          a \notin DOMAIN agents /\ HandleAgentAdded(a, active) /\ UNCHANGED wireVars
    \/ \E a \in Agents : ToggleAgentStatus(a) /\ UNCHANGED wireVars
    \/ \E a \in Agents : UpdateAgentControl(a) /\ UNCHANGED wireVars
    \/ DeliverAgentUpdated /\ UNCHANGED wireVars

\* the active flags of the registry
RegistrySpec == Init /\ [][RegistryNext]_vars

\* the inbound handlers, on well-formed and on malformed frames
InboundNext ==
    \/ \E s \in DOMAIN socks : SocketOpens(s) /\ UNCHANGED wireVars
    \/ \E a \in Agents, act \in BOOLEAN : HandleAgentAdded(a, act) /\ UNCHANGED wireVars
    \/ \E a \in Agents : HandleAgentRemoved(a) /\ UNCHANGED wireVars
    \/ \E a \in Agents : HandleCanvasDraw(a) /\ UNCHANGED wireVars
    \/ HandleCanvasClear /\ UNCHANGED wireVars
    \/ \E a \in OwnerIds : HandleLayerCleared(a) /\ UNCHANGED wireVars
    \/ \E shape \in MalformedShapes, a \in Agents, act \in BOOLEAN :
          HandleMalformed(shape, a, act) /\ UNCHANGED wireVars

\* inbound frames of any shape
InboundSpec == Init /\ [][InboundNext]_vars

\* requests and layer clears that name ids with and without an entry
PolicyNext ==
    \/ ReqNext
    \/ \E a \in Agents : ClearLayerControl(a) /\ UNCHANGED wireVars
    \/ \E a \in OwnerIds : HandleLayerCleared(a) /\ UNCHANGED wireVars

\* operations on ids that may be missing from the registry or the layers
PolicySpec == Init /\ [][PolicyNext]_vars

\* the agent cards: the handlers that change the registry and the layers, and
\* the periodic reconciliation of the displayed counts
ViewNext ==
    \/ \E s \in DOMAIN socks : SocketOpens(s) /\ UNCHANGED wireVars
    \/ \E a \in Agents : HandleAgentAdded(a, TRUE) /\ UNCHANGED wireVars
    \/ \E a \in Agents : HandleAgentRemoved(a) /\ UNCHANGED wireVars
    \/ \E a \in Agents : HandleCanvasDraw(a) /\ UNCHANGED wireVars
    \/ ClearCanvasControl /\ UNCHANGED wireVars
    \/ \E a \in Agents : ClearLayerControl(a) /\ UNCHANGED wireVars
    \/ LayerInfoTick /\ UNCHANGED wireVars

\* displayed layer statistics
ViewSpec == Init /\ [][ViewNext]_vars

\* the connection life cycle with the two intervals that rewrite the status
StatusNext ==
    \/ ConnNext(MaxWireSockets)
    \/ SocketStatusTick /\ UNCHANGED wireVars
    \/ AppStatusTick /\ UNCHANGED wireVars

\* the displayed connection status
StatusSpec == Init /\ [][StatusNext]_vars

\* sessions that are exported
ExportNext ==
    \/ \E s \in DOMAIN socks : SocketOpens(s) /\ UNCHANGED wireVars
    \/ \E a \in Agents, act \in BOOLEAN : HandleAgentAdded(a, act) /\ UNCHANGED wireVars
    \/ \E a \in Agents : HandleAgentRemoved(a) /\ UNCHANGED wireVars
    \/ \E a \in Agents : HandleCanvasDraw(a) /\ UNCHANGED wireVars
    \/ \E a \in Agents, t \in 0..MaxClock : HandleCanvasMermaid(a, t) /\ UNCHANGED wireVars
    \/ ClearCanvasControl /\ UNCHANGED wireVars
    \/ \E keepsData \in BOOLEAN : ExportSessionControl(keepsData) /\ UNCHANGED wireVars

\* the export of a session
ExportSpec == Init /\ [][ExportNext]_vars

\* sessions that start from whatever the browser has stored
RecoveryNext ==
    \/ MouseDown(NoOid) /\ Len(undoStack) < MaxGestures /\ UNCHANGED wireVars
    \/ PathCreated /\ UNCHANGED wireVars
    \/ MouseUp /\ UNCHANGED wireVars
    \/ \E s \in DOMAIN socks : SocketOpens(s) /\ UNCHANGED wireVars
    \/ \E a \in Agents : HandleAgentAdded(a, TRUE) /\ UNCHANGED wireVars
    \/ \E a \in Agents : HandleCanvasDraw(a) /\ UNCHANGED wireVars
    \/ \E keepsData \in BOOLEAN : Reload(keepsData) /\ UNCHANGED wireVars
    \/ \E shape \in StoredShapes, keepsData \in BOOLEAN :
          LoadStored(shape, keepsData) /\ UNCHANGED wireVars

\* recovery of the persisted state
RecoverySpec == Init /\ [][RecoveryNext]_vars

\* two viewers behind the relay; the channel of this viewer opens and stays
\* open, inbound drawings fill its layers
EchoNext ==
    \/ \E s \in DOMAIN socks : SocketOpens(s) /\ UNCHANGED wireVars
    \/ \E a \in Agents : HandleCanvasDraw(a) /\ UNCHANGED wireVars
    \/ \E a \in Agents, t \in 0..MaxClock : HandleCanvasMermaid(a, t) /\ UNCHANGED wireVars
    \/ \E a \in OwnerIds : HandleLayerCleared(a) /\ UNCHANGED wireVars
    \/ LocalClear
    \/ DeliverToLocal
    \/ DeliverToPeer

\* every relayed message is eventually delivered
EchoSpec ==
    /\ Init
    /\ [][EchoNext]_vars
    /\ WF_vars(DeliverToLocal)
    /\ WF_vars(DeliverToPeer)

\* ---------------------------------------------------------------- properties
\* ActiveOwner: currentAgent, "human" until the first assignment
ActiveOwner == IF currentAgent = NoAgent THEN "human" ELSE currentAgent

\* the objects of an owner on the rendering surface: fabric objects carrying
\* its id, and the diagram containers added for it
SurfaceOf(cv, d, owner) ==
    {o.oid : o \in {x \in cv : x.agent = owner}}
        \cup {e.oid : e \in {x \in Range(d) : x.owner = owner}}

\* the handlers the local participant runs through a pointer or a control
LocalOps == {"mouse:down", "path:created", "mouse:up", "clearCanvas",
             "clearAgentLayer", "removeAgent", "removeMermaidDiagram"}

\* C1: a step the participant takes as ActiveOwner A (pointer input, clear
\* canvas, Clear Layer, diagram removal, agent removal) keeps every object of
\* every other owner B in B's layer and on the surface.
LayerIsolation ==
    [][lastOp'.op \in LocalOps =>
        \A b \in OwnerIds \ {ActiveOwner} :
            /\ Range(LayerOf(layers, b)) \subseteq Range(LayerOf(layers', b))
            /\ SurfaceOf(canvasObjs, dom, b) \subseteq SurfaceOf(canvasObjs', dom', b)]_vars

\* C2: a mouse:down on an existing object whose owner differs from the
\* ActiveOwner leaves every layer's object sequence as it was.
MouseDownLeavesStore ==
    [][(/\ lastOp'.op = "mouse:down"
        /\ lastOp'.targetAgent # NoAgent
        /\ lastOp'.targetAgent # ActiveOwner) => layers' = layers]_vars

\* C2 witness: a mouse:down has hit an object of B while A was the ActiveOwner
MouseDownOnForeignObject ==
    /\ lastOp.op = "mouse:down"
    /\ lastOp.actor = "A"
    /\ lastOp.targetAgent = "B"
    /\ LayerOf(layers, "B") # <<>>

\* C3: the gate swallows a mouse:down on an existing object exactly when the
\* object's owner differs from the ActiveOwner the gate reads for the gesture.
GateRejectsForeign ==
    (lastOp.op = "mouse:down" /\ lastOp.targetAgent # NoAgent)
        => (lastOp.rejected <=> lastOp.targetAgent # lastOp.active)

\* C4: object_count of every layer equals the number of objects added under
\* that owner and not yet removed.
LayerCountMatchesAdded ==
    \A owner \in OwnerIds :
        /\ owner \in DOMAIN layers => ObjectCount(owner) = Cardinality(added[owner])
        /\ owner \notin DOMAIN layers => added[owner] = {}

\* every (layer key, position) holding an object
Slots == {sl \in (DOMAIN layers) \X (1..MaxObjects) : sl[2] <= Len(layers[sl[1]])}

StoredOnce ==
    \A s1 \in Slots, s2 \in Slots :
        layers[s1[1]][s1[2]].oid = layers[s2[1]][s2[2]].oid => s1 = s2

NeverMoves ==
    \A k \in DOMAIN layers : \A o \in Range(layers[k]) :
        \A k2 \in DOMAIN layers' : o \in Range(layers'[k2]) => k2 = k

ClearOps == {"clearAgentLayer", "recv:layer_cleared", "removeAgent"}

\* the state CanvasManager.clearAgentLayer can reach: the manager's fields and
\* the rendering surface
CanvasState == <<layers, canvasObjs, dom, undoStack, currentAgent, isDrawing>>

\* C6: clearAgentLayer(id) leaves object_count 0 for an existing layer; on an
\* already-empty layer, or on an id without a layer, it changes no state (the
\* registry included, unless the caller is removeAgent).
ClearAgentLayerIdempotent ==
    [][lastOp'.op \in ClearOps =>
          LET id == lastOp'.arg
          IN  /\ id \in DOMAIN layers =>
                    id \in DOMAIN layers' /\ Len(layers'[id]) = 0
              /\ LayerOf(layers, id) = <<>> =>
                    /\ CanvasState' = CanvasState
                    /\ lastOp'.op # "removeAgent" => agents' = agents]_vars

\* C6 witness: clearAgentLayer ran on a layer that was already empty, after a
\* first clear had emptied it
SecondClearDone ==
    /\ lastOp.op \in {"clearAgentLayer", "recv:layer_cleared"}
    /\ lastOp.count = 0
    /\ lastOp.arg \in Agents
    /\ nextOid > 1

\* C7: after clearAgentLayer(owner) no path and no diagram of that owner is
\* left on the surface, the layer is empty, and the human layer entry exists.
ClearRemovesOwnerObjects ==
    lastOp.op \in ClearOps =>
        /\ SurfaceOf(canvasObjs, dom, lastOp.arg) = {}
        /\ LayerOf(layers, lastOp.arg) = <<>>
        /\ "human" \in DOMAIN layers

\* C8: between two successful opens at most 5 reconnects are scheduled; once 5
\* reconnect attempts have failed, the session is disconnected with the budget
\* used up, and no further connect() is scheduled.
ReconnectBound ==
    /\ [](/\ schedSinceOpen <= maxReconnectAttempts
          /\ failedSinceOpen >= maxReconnectAttempts =>
                ~isConnected /\ reconnectAttempts = maxReconnectAttempts)
    /\ [][(failedSinceOpen >= maxReconnectAttempts
              /\ failedSinceOpen' >= failedSinceOpen) =>
          /\ schedSinceOpen' = schedSinceOpen
          /\ Len(reconnectTimers') <= Len(reconnectTimers)]_vars

\* C8 witness: the fifth reconnect attempt has just failed
FiveAttemptsFailed ==
    /\ failedSinceOpen = maxReconnectAttempts
    /\ lastOp.op = "socket:fail"
    /\ reconnectTimers = <<>>

\* C9: once handleConnectionError has reported the ceiling, the connection is
\* never open again and reconnectAttempts is never reset.
DisconnectedIsTerminal ==
    ceilingHit => (~isConnected /\ reconnectAttempts = maxReconnectAttempts)

LayerClearedSent(agentId) ==
    [msg |-> Msg("canvas_action", "layer_cleared", "system", agentId), ok |-> CanSend]

RequestOps == {"requestModification", "canvas.requestModification",
               "recv:modification_request"}

\* C11: a requestModification call and an inbound modification request leave
\* the layer store, and with it the target's object count, as they were.
RequestLeavesStore ==
    [][lastOp'.op \in RequestOps =>
          /\ layers' = layers
          /\ canvasObjs' = canvasObjs /\ dom' = dom]_vars

\* C11 witness: a request from A to B went out while B's layer held an object
RequestSentWithObjects ==
    /\ lastOp.op = "requestModification"
    /\ lastOp.actor = "A" /\ lastOp.targetAgent = "B"
    /\ Len(emitted) = 1
    /\ LayerOf(layers, "B") # <<>>

\* C12: requestModification hands a request to the channel exactly when both
\* ids are registered and differ, so no request on the channel has
\* fromAgentId = toAgentId.
RequestOnlyBetweenDistinctAgents ==
    lastOp.op \in {"requestModification", "canvas.requestModification"} =>
        /\ (emitted # <<>>) <=>
              (/\ RequestModificationValid(agents, lastOp.actor, lastOp.targetAgent)
               /\ lastOp.actor # lastOp.targetAgent)
        /\ \A i \in DOMAIN emitted : emitted[i].msg.agent_id # emitted[i].msg.arg

\* C13: whenever an agent leaves the registry, by removeAgent or by an inbound
\* agent_removed message, its layer is empty in the resulting state.
RemovalCascades ==
    [][\A x \in Agents :
          (x \in DOMAIN agents /\ x \notin DOMAIN agents') =>
              LayerOf(layers', x) = <<>>]_vars

SentActions(out, actionType) ==
    {i \in DOMAIN out : /\ out[i].msg.type = "canvas_action"
                        /\ out[i].msg.action_type = actionType}

LocalActionsAreRelayed ==
    (/\ CanSend
     /\ \/ lastOp.op \in {"path:created", "addMermaidDiagram", "clearCanvas"}
        \/ lastOp.op = "clearAgentLayer" /\ lastOp.count >= 0) =>
        \E i \in DOMAIN emitted : emitted[i].msg.type = "canvas_action" /\ emitted[i].ok

\* C17: a viewer that receives a canvas action applies the same mutation to its
\* own layer store: a draw or a diagram is stored under the sender, a clear
\* leaves only the empty human layer, and after the layer_cleared action for A
\* the layer of A is empty.
ReplicaConverges ==
    /\ lastOp.op \in {"recv:draw", "recv:mermaid"} =>
            \E a \in Agents : LayerOf(layers, a) # <<>>
    /\ lastOp.op = "recv:clear" => layers = MapSet(EmptyMap, "human", <<>>)
    /\ lastOp.op = "recv:canvas_layer_cleared" => LayerOf(layers, lastOp.arg) = <<>>

\* the calls made so far that never reached the wire
Dropped == (1..calls) \ {wire[i].call : i \in DOMAIN wire}

\* C18: every sendMessage call reaches the wire at most once; a call made while
\* the channel is not open never reaches it, neither at once nor in any later
\* state, a reconnect included.
AtMostOnce ==
    /\ [](\A i \in DOMAIN wire, j \in DOMAIN wire :
              wire[i].call = wire[j].call => i = j)
    /\ [][/\ Dropped \subseteq Dropped'
          /\ \A n \in (calls + 1)..calls' :
                (n \in Dropped') <=> ~CanSend
          /\ SubSeq(wire', 1, Len(wire)) = wire]_vars

\* C18 witness: a message was dropped while the channel was down, the channel
\* was opened again by a reconnect, and a later message reached the wire
DroppedThenReconnected ==
    /\ 1 \in Dropped
    /\ Len(socks) > 1 /\ CanSend
    /\ wire # <<>>
    /\ wire[Len(wire)].call > 1

DiscoverHanded ==
    /\ lastOp.op = "discoverAgents"
    /\ Len(emitted) = 1
    /\ emitted[1].msg.type = "discover_agents"

\* C19 as stated: every time the connection enters Open, a discover_agents
\* message is eventually sent on the channel (behaviours that create
\* MaxWireSockets sockets are not judged).
OpenLeadsToDiscoverSent ==
    (lastOp.op = "socket:open") ~>
        ((DiscoverHanded /\ emitted[1].ok) \/ Len(socks) >= MaxWireSockets)

\* C19 amended: every onopen schedules one discoverAgents call; with timers
\* firing the call eventually runs and hands one discover_agents message to
\* sendMessage, which transmits it exactly when the channel is still open at
\* that moment and drops it otherwise.
OpenLeadsToDiscoverCall ==
    /\ [][lastOp'.op = "socket:open" => discoverTimers' = discoverTimers + 1]_vars
    /\ (discoverTimers > 0) ~> DiscoverHanded
    /\ [](lastOp.op = "discoverAgents" => DiscoverHanded /\ emitted[1].ok = CanSend)

\* C19 witness: after a reconnect the discovery call ran on the open channel
DiscoverAfterReconnect ==
    /\ DiscoverHanded
    /\ emitted[1].ok
    /\ Len(socks) > 1

\* C20: the undo stack never holds more than 50 snapshots; a push onto a full
\* stack evicts the oldest snapshot and keeps the others in insertion order.
UndoStackBounded ==
    /\ [](Len(undoStack) <= maxUndoSteps)
    /\ [][lastOp'.op \in {"mouse:up", "path:created"} =>
            IF Len(undoStack) = maxUndoSteps
            THEN undoStack' = Append(Tail(undoStack), canvasObjs')
            ELSE undoStack' = Append(undoStack, canvasObjs')]_vars

\* C20 witness: a snapshot was pushed onto a stack of 50 whose oldest snapshot
\* differed from the one that is now the oldest
OldestEvicted ==
    /\ lastOp.op = "mouse:up"
    /\ lastOp.count = maxUndoSteps
    /\ Len(undoStack) = maxUndoSteps
    /\ undoStack[1] # {}
    /\ undoStack[1] # undoStack[maxUndoSteps]

\* the objects on the rendering surface: fabric objects and diagram containers
SurfaceOids == {o.oid : o \in canvasObjs} \cup {e.oid : e \in Range(dom)}

\* C21: the objects on the rendering surface are exactly the objects of the
\* layers, each once.
SurfaceMatchesStore ==
    /\ SurfaceOids = LayerOids(layers)
    /\ StoredOnce

\* C22 as stated: the currentAgent field holds an owner id in every state, the
\* first included.
CurrentAgentIsOwnerId == currentAgent \in OwnerIds

\* C22: ActiveOwner, the value every reader of currentAgent obtains (null reads
\* as "human"), is "human" at session start and one owner id at all times;
\* setAgentDrawingMode(X) leaves it at X, a mouse:down leaves it at "human", and
\* no other step changes it.
ActiveOwnerChanges ==
    /\ ActiveOwner = "human"
    /\ [](ActiveOwner \in OwnerIds)
    /\ [][/\ lastOp'.op = "setAgentDrawingMode" => currentAgent' = lastOp'.arg
          /\ lastOp'.op = "mouse:down" => currentAgent' = "human"
          /\ lastOp'.op \notin {"setAgentDrawingMode", "mouse:down"}
                => currentAgent' = currentAgent]_vars

\* C22 witness: raw pointer input has taken the ActiveOwner from A back to
\* "human"
PointerRevertsToHuman ==
    /\ lastOp.op = "mouse:down"
    /\ lastOp.actor = "A"
    /\ currentAgent = "human"

\* C23: the owner a path is attributed to at path:created, and the layer it is
\* pushed to, is the ActiveOwner the gate read at the mouse:down of its gesture.
GestureSampling ==
    [][lastOp'.op = "path:created" =>
        \A o \in canvasObjs' \ canvasObjs :
            /\ o.agent = gestureAgent
            /\ o.oid \in {x.oid : x \in Range(LayerOf(layers', gestureAgent))}]_vars

\* C24: a malformed inbound frame leaves the layers and the registry as they
\* were, and the channel stays open for the frames that follow.
MalformedIsDropped ==
    [][lastOp'.op = "recv:malformed" =>
        /\ layers' = layers
        /\ agents' = agents
        /\ AnyOpen']_vars

\* C25: a modification request, outgoing or inbound, that names an id missing
\* from the registry puts a note into the conversation and sends nothing;
\* clearing the layer of an id without a layer changes nothing and puts no note.
MissingEntityPolicy ==
    [][/\ (/\ lastOp'.op \in {"requestModification", "recv:modification_request"}
           /\ ~RequestModificationValid(agents, lastOp'.actor, lastOp'.targetAgent))
          => (notes' # <<>> /\ emitted' = <<>>)
       /\ (/\ lastOp'.op \in {"clearAgentLayer", "recv:layer_cleared"}
           /\ lastOp'.arg \notin DOMAIN layers)
          => (CanvasState' = CanvasState /\ agents' = agents /\ notes' = <<>>)]_vars

\* C26: a close of the channel that the session did not request (a clean or an
\* unclean close event, or a failure), found with fewer than 5 attempts used,
\* is eventually followed by a connect() call (behaviours that create
\* MaxWireSockets sockets are not judged).
CloseLeadsToConnect ==
    (/\ lastOp.op \in {"socket:close", "socket:lost", "socket:fail"}
     /\ lastOp.count < maxReconnectAttempts)
        ~> (lastOp.op = "connect" \/ Len(socks) >= MaxWireSockets)

\* C27: after a reconciliation tick every registered agent's card shows the
\* number of objects in the agent's layer, 0 when the layer is empty or absent.
LayerCountReconciled ==
    [][lastOp'.op = "tick:layers" =>
        \A id \in DOMAIN agents' :
            /\ id \in DOMAIN layerCountText'
            /\ layerCountText'[id] = Len(LayerOf(layers', id))]_vars

\* C28: after either status tick the displayed status is Online exactly when
\* the current socket is open, and in no state would the two ticks write
\* different texts.
StatusSelfHealing ==
    /\ [][lastOp'.op \in {"tick:readyState", "tick:isConnected"} =>
            (statusText' = "Online" <=> SocketIsOpen')]_vars
    /\ [](updateConnectionStatus(SocketIsOpen, NoStatus)
            = updateConnectionStatus(isConnected, NoStatus))

\* the agents and the per-owner object counts of the live session are those of
\* the exported file
ExportMatchesSession ==
    /\ download.agents = {[id |-> a, is_active |-> agents[a]] : a \in DOMAIN agents}
    /\ DOMAIN download.layers = DOMAIN layers
    /\ \A k \in DOMAIN layers : Len(download.layers[k]) = Len(layers[k])

RecoversToDefault ==
    lastOp.op = "loadStored" =>
        /\ layers = MapSet(EmptyMap, "human", <<>>)
        /\ ~lastOp.rejected

\* the sockets that are connecting or open
LiveSockets == {s \in DOMAIN socks : socks[s] \in {"connecting", "open"}}

\* C31: a failed connection, which raises an error event and an unclean close
\* event, uses one reconnect attempt and schedules one connect(), and at most
\* one socket is connecting or open at any time.
OneReconnectPerFailure ==
    /\ [][(lastOp'.op = "socket:fail" /\ reconnectAttempts < maxReconnectAttempts) =>
            /\ reconnectAttempts' = reconnectAttempts + 1
            /\ Len(reconnectTimers') = Len(reconnectTimers) + 1]_vars
    /\ [](Cardinality(LiveSockets) <= 1)

\* C32: isConnected is true exactly when the socket held in this.ws is open; a
\* close or error event of a superseded socket changes neither isConnected nor
\* reconnectAttempts; sendMessage is never refused while the current socket is
\* open.
StaleSocketIsolation ==
    /\ [](isConnected <=> SocketIsOpen)
    /\ [][(/\ lastOp'.op \in {"socket:close", "socket:lost", "socket:fail"}
           /\ \E s \in 1..(Len(socks) - 1) : socks'[s] # socks[s])
          => (isConnected' = isConnected /\ reconnectAttempts' = reconnectAttempts)]_vars
    /\ [](SocketIsOpen => CanSend)

\* between two viewers the relayed clear actions eventually run out for good
EchoQuiesces == <>[](relay.toLocal = 0 /\ relay.toPeer = 0)

\* C33: applying an inbound canvas_action or an inbound layer_cleared message
\* makes the receiver hand no canvas_action to the channel, and between two
\* viewers the relayed messages eventually run out for good.
NoEchoStorm ==
    /\ [][lastOp'.op \in {"recv:draw", "recv:mermaid", "recv:clear",
                          "recv:canvas_layer_cleared", "recv:layer_cleared"} =>
            \A i \in DOMAIN emitted' : emitted'[i].msg.type # "canvas_action"]_vars
    /\ EchoQuiesces

\* the layer_cleared canvas actions among the calls of the last handler
LayerClearedCalls ==
    {i \in DOMAIN emitted : /\ emitted[i].msg.type = "canvas_action"
                            /\ emitted[i].msg.action_type = "layer_cleared"}

\* C34: a clearAgentLayer(id) call on an id with a layer entry hands exactly one
\* layer_cleared canvas action (agent_id "system", cleared_agent_id id) to the
\* channel, a call on an id without a layer entry hands none, and the Clear
\* Layer control of an agent with a layer hands that action followed by one
\* clear_agent_layer message.
OneLayerClearedPerCall ==
    /\ lastOp.op \in ClearOps =>
          IF lastOp.count >= 0
          THEN /\ Cardinality(LayerClearedCalls) = 1
               /\ \A i \in LayerClearedCalls : emitted[i] = LayerClearedSent(lastOp.arg)
          ELSE LayerClearedCalls = {}
    /\ (lastOp.op = "clearAgentLayer" /\ lastOp.count >= 0) =>
          emitted = <<LayerClearedSent(lastOp.arg),
                      [msg |-> Msg("clear_agent_layer", NoAgent, lastOp.arg, NoAgent),
                       ok |-> CanSend]>>

\* C34 witness: the Clear Layer control of A ran on a layer that held an object
\* and made its two calls on the open channel
ClearLayerControlSentBoth ==
    /\ lastOp.op = "clearAgentLayer"
    /\ lastOp.arg = "A"
    /\ lastOp.count >= 1
    /\ Len(emitted) = 2
    /\ emitted[1].ok /\ emitted[2].ok

\* C35: a path created by a pointer gesture that nothing interrupts (mouse:down,
\* then path:created) is tagged and stored under "human" and no draw canvas
\* action is handed to the channel for it, whatever setAgentDrawingMode call
\* came before the gesture.
PointerGesturesAreHuman ==
    [][(lastOp.op = "mouse:down" /\ lastOp'.op = "path:created") =>
        /\ \A o \in canvasObjs' \ canvasObjs :
              /\ o.agent = "human"
              /\ o \in Range(LayerOf(layers', "human"))
        /\ \A a \in Agents : LayerOf(layers', a) = LayerOf(layers, a)
        /\ emitted' = <<>>]_vars

\* C35 witness: with the drawing mode of A entered before the gesture and the
\* channel open, the stroke of an uninterrupted gesture has landed in the human
\* layer
StrokeAfterDrawMode ==
    /\ lastOp.op = "path:created"
    /\ lastOp.actor = "A"
    /\ CanSend
    /\ LayerOf(layers, "human") # <<>>
    /\ LayerOf(layers, "A") = <<>>

\* ------------------------------------------------------------------ C36
\* C36: one undoLastAction after a completed draw gesture takes the path just
\* drawn off the surface, and when a snapshot was taken before that gesture the
\* surface holds the objects of that snapshot
UndoRollsBackGesture ==
    [][(lastOp.op = "path:created" /\ lastOp'.op = "undoLastAction") =>
        /\ \A o \in canvasObjs' : o.oid # nextOid - 1
        /\ Len(undoStack) > 1 =>
              {o.oid : o \in canvasObjs'} = {o.oid : o \in undoStack[Len(undoStack) - 1]}]_vars

\* ------------------------------------------------------------------ C37
\* C37: every successful open sets reconnectAttempts to 0, the outage that
\* follows an open schedules reconnects again, at most maxReconnectAttempts of
\* them since that open, and reconnectAttempts stays within
\* 0..maxReconnectAttempts
ReconnectBudgetReset ==
    /\ [](reconnectAttempts \in 0..maxReconnectAttempts)
    /\ [](schedSinceOpen <= maxReconnectAttempts)
    /\ [][lastOp'.op = "socket:open" => reconnectAttempts' = 0]_vars
    /\ [][(lastOp.op = "socket:open" /\ lastOp'.op \in {"socket:lost", "socket:fail"}) =>
            /\ reconnectAttempts' > 0
            /\ Len(reconnectTimers') > Len(reconnectTimers)]_vars

\* C37 witness: a connection has opened (its discovery timer is still pending)
\* and the outage after it has used all maxReconnectAttempts attempts
BudgetUsedAfterOpen ==
    /\ discoverTimers > 0
    /\ ~isConnected
    /\ reconnectAttempts = maxReconnectAttempts
    /\ schedSinceOpen = maxReconnectAttempts

\* ------------------------------------------------------------------ C38
\* C38: the n-th connect() scheduled since the last successful open
\* (n = 1..maxReconnectAttempts) is scheduled with a timeout of n * reconnectDelay
\* by the failure that triggered it, so the timeouts of consecutive attempts
\* strictly increase
LinearBackoff ==
    [][/\ Len(reconnectTimers') - Len(reconnectTimers) \in {0, schedSinceOpen' - schedSinceOpen}
           \/ lastOp'.op \in {"connect", "socket:open"}
       /\ lastOp'.op \in {"socket:fail", "socket:lost", "socket:close"} =>
           \A j \in 1..(schedSinceOpen' - schedSinceOpen) :
              /\ schedSinceOpen + j \in 1..maxReconnectAttempts
              /\ reconnectTimers'[Len(reconnectTimers) + j] =
                     (schedSinceOpen + j) * reconnectDelay
              /\ j > 1 => reconnectTimers'[Len(reconnectTimers) + j] >
                             reconnectTimers'[Len(reconnectTimers) + j - 1]]_vars

\* C38 witness: after an open, a failure has just scheduled the last attempt
\* of the budget with the longest timeout
FifthAttemptScheduled ==
    /\ discoverTimers > 0
    /\ lastOp.op \in {"socket:fail", "socket:lost"}
    /\ lastOp.count < maxReconnectAttempts
    /\ schedSinceOpen = maxReconnectAttempts
    /\ reconnectTimers # <<>>
    /\ reconnectTimers[Len(reconnectTimers)] = maxReconnectAttempts * reconnectDelay

\* ------------------------------------------------------------------ C39
\* C39: the mermaid diagrams on the surface have pairwise distinct ids, two
\* diagrams added at the same value of Date.now() included
DiagramIdsUnique ==
    \A i, j \in DOMAIN dom : i # j => dom[i].id # dom[j].id

\* ------------------------------------------------------------------ C40
\* C40: the active flag of an agent changes only in a toggleAgentStatus step,
\* which negates it (so two consecutive toggles restore it); editing an agent
\* through updateAgent, the server's broadcast of the edit included, leaves
\* the flag as it was; getActiveAgents is the set of agents whose flag is true
ActiveFlagFrame ==
    /\ [](getActiveAgents = {a \in Agents : a \in DOMAIN agents /\ agents[a]})
    /\ [][\A a \in (DOMAIN agents) \cap (DOMAIN agents') :
            /\ (lastOp'.op = "toggleAgentStatus" /\ lastOp'.arg = a) =>
                  agents'[a] = ~agents[a]
            /\ agents'[a] # agents[a] =>
                  (lastOp'.op = "toggleAgentStatus" /\ lastOp'.arg = a)
            /\ (lastOp'.op = "updateAgent" /\ lastOp'.arg = a) => agents'[a] = agents[a]
            /\ (/\ lastOp.op = "updateAgent"
                /\ lastOp'.op = "recv:agent_updated" /\ lastOp'.arg = a) =>
                  agents'[a] = agents[a]]_vars

====
